---- MODULE Spec2Model ----
(***************************************************************************)
(* A model of xk6-grpc-web: the gRPC-Web client of grpcweb/client.go and   *)
(* the server-streaming handle of grpcweb/stream.go (the task-queue        *)
(* revision, src/unnamed/part_009, which is the one client.go builds: it   *)
(* is the revision whose stream struct has the tq field).                  *)
(*                                                                         *)
(* Threads.  "js" is the VU's single cooperative thread: it runs the       *)
(* script and then the event loop.  "bg" is a background goroutine (one    *)
(* per open stream, one per dispatched asyncInvoke).                       *)
(*                                                                         *)
(* Host contract used by the model (k6 event loop, k6-taskqueue-lib):      *)
(*  - vu.RegisterCallback() reserves one callback; calling it hands one    *)
(*    function to the event loop, which runs the functions it was handed   *)
(*    in FIFO order on the js thread, only after the script has returned.  *)
(*  - a function that returns an error makes the event loop stop: nothing  *)
(*    handed to it afterwards is run (client.go:286 "do not return error"). *)
(*  - taskqueue.Queue appends the task unless the queue is closed and, if  *)
(*    the queue was empty, hands the queue's drain function to the loop;   *)
(*    the drain function takes the whole queue, reserves a new callback    *)
(*    unless closed, and runs the tasks in order up to the first error;    *)
(*    taskqueue.Close marks the queue closed and releases the reserved     *)
(*    callback if the queue is empty.                                      *)
(***************************************************************************)
EXTENDS Integers, Sequences, FiniteSets, TLC

\* ---------------------------------------------------------------- bounds
MaxMsgs == 2
MaxOn == 2
MaxCalls == 2

VARIABLES
    state,        \* c.vu.State(): "nil" in the init context, "vu" afterwards
    mds,          \* c.mds: dispatch path |-> method descriptor
    addr,         \* c.addr: "nil" or the parsed address
    httpClient,   \* c.httpClient: "nil" or "set"
    peer,         \* the mds of a second client instance of the same VU
    codec,        \* protoCodec.Unmarshal: the framework's buffer and the target
    trip,         \* a host value on its way through buildRequest and back
    walk,         \* Load's loop over walkFileDescriptors: call stack, seen, fdset
    netCalls,     \* network calls made so far (unary, stream open, reflection)
    samples,      \* telemetry observations pushed: [dur, streams, msgs]
    registered,   \* callbacks reserved with vu.RegisterCallback and not yet called
    ret,          \* the last API call: its arguments, outcome and direct effects
    ncalls,       \* API calls made so far
    acalls,       \* the dispatched asyncInvoke calls
    js,           \* the js thread: "script", "idle" (in the event loop), "task"
    loopq,        \* functions handed to the event loop, not yet run
    loopErr,      \* the event loop stopped on a callback's error
    spc,          \* the stream goroutine's position
    frames,       \* the frames the stream has received so far
    fin,          \* how the stream ended: "open" until Receive() returns false
    sctx,         \* the context the stream was opened under: "vu" or "timeout"
    smd,          \* the stream's method, its s.md, and the descriptor it last decoded with
    tq,           \* s.tq: [queue, closed]
    batch,        \* the drain function's local copy of the queue
    listeners,    \* s.eventListeners.listeners
    nOn,          \* On() calls made so far
    onRes,        \* the last On() call: its arguments and its outcome
    emitted,      \* the tasks the task queue accepted, in order
    events,       \* the events dispatched to the listener lists, in order
    calls,        \* the listener invocations, in order
    logs          \* number of messages written to the logger

vars == <<state, mds, addr, httpClient, peer, codec, trip, walk, netCalls, samples,
          registered,
          ret, ncalls,
          acalls, js, loopq, loopErr, spc, frames, fin, sctx, smd, tq, batch, listeners, nOn, onRes,
          emitted, events, calls, logs>>

codecVars == <<codec, trip, walk>>
clientVars == <<state, mds, addr, httpClient, peer, codecVars>>
loopVars == <<js, loopq, loopErr>>
callVars == <<ret, ncalls, acalls>>

\* ------------------------------------------------------- stream.go: events
eventTypeData == "data"
eventTypeError == "error"
eventTypeEnd == "end"

EventTypes == {eventTypeData, eventTypeError, eventTypeEnd}

\* newEventListeners: the three kinds, each with an empty list
newEventListeners == [k \in EventTypes |-> <<>>]

\* A handler is a script function: its identity and whether it throws.
Handlers == [id : 1..(MaxOn + 1), raises : BOOLEAN]

\* The handler argument left out by the script: a nil func in Go.
NilHandler == [id |-> 0, raises |-> FALSE]

\* No On() call made yet.
NoOn == [kind |-> "none", h |-> 0, res |-> "none"]

\* ------------------------------------------------- scheduler and task queue
Sched == [tq |-> tq, loopq |-> loopq, registered |-> registered, emitted |-> emitted]

InnerQueue == [type |-> "innerQueue", id |-> 0]
Noop == [type |-> "noop", id |-> 0]

\* taskqueue.New(c.vu.RegisterCallback): reserves the queue's first callback
TqNew(s) ==
    [s EXCEPT !.tq = [queue |-> <<>>, closed |-> FALSE],
              !.registered = s.registered + 1]

\* tq.Queue(f)
TqQueue(s, f) ==
    IF s.tq.closed THEN s
    ELSE IF s.tq.queue = <<>>
         THEN [s EXCEPT !.tq.queue = <<f>>,
                        !.emitted = Append(s.emitted, f),
                        !.loopq = Append(s.loopq, InnerQueue),
                        !.registered = s.registered - 1]
         ELSE [s EXCEPT !.tq.queue = Append(s.tq.queue, f),
                        !.emitted = Append(s.emitted, f)]

\* tq.Close()
TqClose(s) ==
    IF s.tq.closed THEN s
    ELSE IF s.tq.queue = <<>>
         THEN [s EXCEPT !.tq.closed = TRUE,
                        !.loopq = Append(s.loopq, Noop),
                        !.registered = s.registered - 1]
         ELSE [s EXCEPT !.tq.closed = TRUE]

SetSched(s) ==
    /\ tq' = s.tq
    /\ loopq' = s.loopq
    /\ registered' = s.registered
    /\ emitted' = s.emitted

\* --------------------------------------------------- stream.go: listeners
\* The listeners a dispatch calls: the list in registration order, up to and
\* including the first one that returns an error ("quit the loop and return
\* the error").
RECURSIVE FirstRaise(_, _)
FirstRaise(ls, i) ==
    IF i > Len(ls) THEN 0
    ELSE IF ls[i].raises THEN i
    ELSE FirstRaise(ls, i + 1)

Invoked(ls) ==
    IF FirstRaise(ls, 1) = 0 THEN ls ELSE SubSeq(ls, 1, FirstRaise(ls, 1))

\* The invocations of one dispatch of task t on thread th, while the js thread
\* is in mode at.
CallsOf(t, th, at) ==
    LET inv == Invoked(listeners[t.kind])
    IN  [i \in 1..Len(inv) |->
            [kind |-> t.kind, msg |-> t.msg, code |-> t.code, h |-> inv[i].id,
             thread |-> th, at |-> at]]

\* The function queued by queueCallback / queueError / queueClose, run by the
\* drain function on the js thread: it returns the first listener's error.
TaskRaises(t) == FirstRaise(listeners[t.kind], 1) # 0

\* --------------------------------------------------- stream.go: goroutine
DataTask(n) == [kind |-> eventTypeData, msg |-> n, code |-> 0]
ErrorTask(c) == [kind |-> eventTypeError, msg |-> 0, code |-> c]
EndTask == [kind |-> eventTypeEnd, msg |-> 0, code |-> 0]

\* How a stream can end (s.stream.Err() after Receive() returned false): nil,
\* a *connect.Error carrying the server's status, a failure of the transport
\* (which connect reports as a *connect.Error with code Unavailable, or which
\* is no *connect.Error), or the context's end (which connect reports as a
\* *connect.Error with code Canceled or DeadlineExceeded).
StatusOK == 0
StatusCanceled == 1
StatusDeadlineExceeded == 4
StatusNotFound == 5
StatusInternal == 13
StatusUnavailable == 14
StatusCodes == {StatusNotFound, StatusInternal}

Open == [kind |-> "open", coded |-> FALSE, code |-> 0]
Endings ==
    {[kind |-> "eof", coded |-> FALSE, code |-> 0]}
    \cup {[kind |-> "status", coded |-> TRUE, code |-> c] : c \in StatusCodes}
    \cup {[kind |-> "transport", coded |-> c, code |-> IF c THEN StatusUnavailable ELSE 0] :
            c \in BOOLEAN}
    \cup {[kind |-> "canceled", coded |-> TRUE, code |-> StatusCanceled]}
    \cup (IF sctx = "timeout"
          THEN {[kind |-> "deadline", coded |-> TRUE, code |-> StatusDeadlineExceeded]}
          ELSE {})

\* The goroutine's code after the receive loop, in execution order: the
\* s.stream.Err() block, then the deferred calls, last deferred first.
ExitOrderCloseFirst == <<"queueClose", "err", "tqClose">>
ExitOrder == <<"err", "queueClose", "tqClose">>

After(pc) ==
    IF pc = "recv" THEN ExitOrder[1]
    ELSE LET i == CHOOSE j \in 1..Len(ExitOrder) : ExitOrder[j] = pc
         IN  IF i = Len(ExitOrder) THEN "done" ELSE ExitOrder[i + 1]

\* A data event delivered from the goroutine itself, as the first revision
\* of stream.go delivered it (stream.callback called in the receive loop).
callbackOnGoroutine(n) ==
    /\ samples' = [samples EXCEPT !.msgs = @ + 1]
    /\ events' = Append(events, DataTask(n))
    /\ calls' = calls \o CallsOf(DataTask(n), "bg", js)
    /\ UNCHANGED <<tq, loopq, registered, emitted>>

\* queueCallback that queues the data task and pushes no sample
queueCallbackUnobserved(n) ==
    /\ samples' = samples
    /\ SetSched(TqQueue(Sched, DataTask(n)))
    /\ UNCHANGED <<events, calls>>

\* queueCallback(message): one observation, pushed under the VU's context
\* (live while the VU runs, whatever the stream's own deadline), then the data
\* task is queued
queueCallback(n) ==
    /\ samples' = [samples EXCEPT !.msgs = @ + 1]
    /\ SetSched(TqQueue(Sched, DataTask(n)))
    /\ UNCHANGED <<events, calls>>

\* queueError(connectErr)
queueError(e) == SetSched(TqQueue(Sched, ErrorTask(e.code)))

\* queueClose()
queueClose == SetSched(TqQueue(Sched, EndTask))

\* No stream yet: no method, no descriptor
NoDescriptor == [method |-> "", md |-> "none", with |-> "none"]

\* The descriptor looked up in c.mds when the response arrives
outputDescriptorLookedUp(call) == mds[call.method]

\* convertMessageToJSON(md, ...) in AsyncInvoke's goroutine and
\* convertMessageToJSON(s.md, ...) in the receive loop: the descriptor the
\* call resolved when it was issued
outputDescriptor(call) == call.md

\* for s.stream.Receive() { ... }: one turn of the loop
Receive ==
    /\ spc = "recv"
    /\ \/ \E decodable \in BOOLEAN :
            /\ Len(frames) < MaxMsgs
            /\ frames' = Append(frames, decodable)
            /\ smd' = [smd EXCEPT !.with = outputDescriptor(smd)]
            /\ IF decodable
               THEN /\ queueCallback(Len(frames) + 1)
                    /\ logs' = logs
               ELSE /\ logs' = logs + 1
                    /\ UNCHANGED <<samples, tq, loopq, registered, emitted, events, calls>>
            /\ UNCHANGED <<spc, fin>>
       \/ \E e \in Endings :
            /\ fin' = e
            /\ spc' = After(spc)
            /\ UNCHANGED <<frames, smd, samples, tq, loopq, registered, emitted, logs, events,
                           calls>>
    /\ UNCHANGED <<clientVars, netCalls, callVars, js, loopErr, sctx, batch,
                   listeners, nOn, onRes>>

\* if err := s.stream.Err(); err != nil { ... }
StreamErr ==
    /\ spc = "err"
    /\ spc' = After(spc)
    /\ IF fin.kind = "eof"
       THEN UNCHANGED <<tq, loopq, registered, emitted, logs>>
       ELSE IF fin.coded
            THEN queueError(fin) /\ logs' = logs
            ELSE logs' = logs + 1 /\ UNCHANGED <<tq, loopq, registered, emitted>>
    /\ UNCHANGED <<clientVars, netCalls, samples, callVars, js, loopErr, frames, fin,
                   sctx, smd, batch, listeners, nOn, onRes, events, calls>>

\* defer s.queueClose()
DeferQueueClose ==
    /\ spc = "queueClose"
    /\ spc' = After(spc)
    /\ queueClose
    /\ UNCHANGED <<clientVars, netCalls, samples, callVars, js, loopErr, frames, fin,
                   sctx, smd, batch, listeners, nOn, onRes, events, calls, logs>>

\* defer s.tq.Close()
DeferTqClose ==
    /\ spc = "tqClose"
    /\ spc' = After(spc)
    /\ SetSched(TqClose(Sched))
    /\ UNCHANGED <<clientVars, netCalls, samples, callVars, js, loopErr, frames, fin,
                   sctx, smd, batch, listeners, nOn, onRes, events, calls, logs>>

\* ------------------------------------------------------ stream.go: On
OnKinds == EventTypes \cup {"close"}

\* eventListeners.add: the handler is appended to the list of a kind the map
\* has, and any other kind is an error.
add(ls, eventType, fn) ==
    IF eventType \in DOMAIN ls
    THEN [listeners |-> [ls EXCEPT ![eventType] = Append(@, fn)], err |-> FALSE]
    ELSE [listeners |-> ls, err |-> TRUE]

\* eventListeners.all holds the read lock of els.mu while it calls the
\* listeners: a listener of the task being run is executing.
ReadLocked == js = "task" /\ batch # <<>> /\ listeners[Head(batch).kind] # <<>>

\* s.On(eventType, handler), called by the script or by a running listener.
\* A nil handler is thrown before add is reached. add takes the write lock of
\* els.mu: under the read lock of the same thread it never gets it, and the
\* js thread stays in the call.
On(eventType, handler) ==
    /\ spc # "none"
    /\ nOn < MaxOn
    /\ nOn' = nOn + 1
    /\ js = "script" \/ ReadLocked
    /\ IF handler = NilHandler
       THEN /\ onRes' = [kind |-> eventType, h |-> handler.id, res |-> "throw"]
            /\ UNCHANGED <<listeners, logs, js>>
       ELSE IF ReadLocked
            THEN /\ onRes' = [kind |-> eventType, h |-> handler.id, res |-> "blocked"]
                 /\ js' = "blocked"
                 /\ UNCHANGED <<listeners, logs>>
            ELSE LET r == add(listeners, eventType, handler)
                 IN  /\ listeners' = r.listeners
                     /\ logs' = IF r.err THEN logs + 1 ELSE logs
                     /\ onRes' = [kind |-> eventType, h |-> handler.id,
                                  res |-> IF r.err THEN "warned" ELSE "ok"]
                     /\ js' = js
    /\ UNCHANGED <<clientVars, netCalls, samples, registered, callVars, loopq, loopErr, spc,
                   frames, fin, sctx, smd, tq, batch, emitted, events, calls>>

\* ------------------------------------------------------------ event loop
\* The script returns: the js thread enters the event loop.
Yield ==
    /\ js = "script"
    /\ state = "vu"
    /\ js' = "idle"
    /\ UNCHANGED <<clientVars, netCalls, samples, registered, callVars, loopq, loopErr,
                   spc, frames, fin, sctx, smd, tq, batch, listeners, nOn, onRes,
                   emitted, events, calls,
                   logs>>

LoopReady == js = "idle" /\ ~loopErr /\ loopq # <<>>

\* The event loop runs the task queue's drain function: it takes the queue
\* and reserves the next callback unless the queue is closed.
LoopInnerQueue ==
    /\ LoopReady
    /\ Head(loopq) = InnerQueue
    /\ loopq' = Tail(loopq)
    /\ batch' = tq.queue
    /\ tq' = [tq EXCEPT !.queue = <<>>]
    /\ registered' = IF tq.closed THEN registered ELSE registered + 1
    /\ js' = "task"
    /\ UNCHANGED <<clientVars, netCalls, samples, callVars, loopErr, spc, frames, fin,
                   sctx, smd, listeners, nOn, onRes, emitted, events, calls, logs>>

\* The event loop runs the function tq.Close() handed it: nothing to do.
LoopNoop ==
    /\ LoopReady
    /\ Head(loopq) = Noop
    /\ loopq' = Tail(loopq)
    /\ UNCHANGED <<clientVars, netCalls, samples, registered, callVars, js, loopErr,
                   spc, frames, fin, sctx, smd, tq, batch, listeners, nOn, onRes,
                   emitted, events, calls,
                   logs>>

\* The drain function runs its next task: the event is dispatched to the
\* listeners of its kind; a listener's error is returned to the event loop,
\* which stops, and the rest of the batch is not run.
Dispatch ==
    /\ js = "task"
    /\ batch # <<>>
    /\ LET t == Head(batch)
       IN  /\ events' = Append(events, t)
           /\ calls' = calls \o CallsOf(t, "js", js)
           /\ IF TaskRaises(t)
              THEN /\ loopErr' = TRUE
                   /\ batch' = <<>>
                   /\ js' = "idle"
              ELSE /\ loopErr' = loopErr
                   /\ batch' = Tail(batch)
                   /\ js' = IF Tail(batch) = <<>> THEN "idle" ELSE "task"
    /\ UNCHANGED <<clientVars, netCalls, samples, registered, callVars, loopq, spc,
                   frames, fin, sctx, smd, tq, listeners, nOn, onRes, emitted, logs>>

\* ------------------------------------------------------- client.go: values
\* Dispatch paths: the methods of the two schema files, and one no file has.
FileMethods ==
    [a |-> {"/a.A/Get"}, b |-> {"/b.B/Watch"}, c |-> {"/a.A/Get"}]
Files == DOMAIN FileMethods
NoSuchMethod == "/a.A/NoSuch"
MethodsOf(fdset) == UNION {FileMethods[f] : f \in fdset}
Methods == MethodsOf(Files)

\* A set of files links when no two of them declare the same method; files a
\* and c declare the same service with different message types.
Consistent(fdset) ==
    \A f, g \in fdset : f # g => FileMethods[f] \cap FileMethods[g] = {}

\* The method descriptor a consistent set of files gives a path: it is
\* identified by the file that declares it (its input and output types).
DescOf(fdset, p) == CHOOSE f \in fdset : p \in FileMethods[f]

\* make(map[string]protoreflect.MethodDescriptor)
NoMethods == [p \in {} |-> "a"]
Paths == Methods \cup {NoSuchMethod}

\* A request argument as the Go method receives it: nil when the script
\* passed no argument, a non-nil sobek value holding null or undefined
\* (common.IsNullish tells the two apart, client.go:427), an object that
\* conforms to the input descriptor, or one protojson rejects.
Requests == {"absent", "nullish", "object", "unencodable"}

\* The params argument: absent (nil), null/undefined, or an object.  bad names
\* the first key, in the object's key order, whose value the switch rejects.
\* metadata is the value under the key metadata: none, null or undefined, a
\* value that is no key-value object (a string, an array), an object with a
\* value that is no string, an object of strings.
ParamsAbsent == [shape |-> "absent", bad |-> "none", timeout |-> 0, metadata |-> "unset"]
ParamsNullish == [shape |-> "nullish", bad |-> "none", timeout |-> 0, metadata |-> "unset"]
ParamsObjects ==
    [shape : {"object"}, bad : {"none"}, timeout : {-1, 0, 1}, metadata : {"unset"}]
    \cup [shape : {"object"}, bad : {"none"}, timeout : {0},
          metadata : {"nullish", "strings"}]
    \cup [shape : {"object"}, bad : {"metadata"}, timeout : {0},
          metadata : {"notobject", "nonstring"}]
    \cup [shape : {"object"}, bad : {"tags", "timeout"}, timeout : {0},
          metadata : {"unset"}]
Params == {ParamsAbsent, ParamsNullish} \cup ParamsObjects

\* The headers of the request buildRequest returns: r.Header()[k] = v for
\* every key of the parsed metadata
requestHeaders(params) == IF params.metadata = "strings" THEN "metadata" ELSE "none"

\* What a handler did: it returned a value ("ok"), returned a Go error that
\* the bridge throws to the script ("error"), threw a script TypeError from
\* inside the runtime ("throw"), or hit a Go runtime panic ("panic").
Result(kind, err, status, timeout) ==
    [kind |-> kind, err |-> err, status |-> status, timeout |-> timeout,
     class |-> "none"]
Ok(timeout) == Result("ok", "", StatusOK, timeout)
Fail(err) == Result("error", err, 0, 0)
Throw(err) == Result("throw", err, 0, 0)
Panic(err) == Result("panic", err, 0, 0)

\* The record of one API call: arguments, the phase and whether the method
\* was registered when it was made, the outcome, and what the call itself did
\* before returning: network calls, observations pushed, callbacks reserved.
Ret(op, method, req, params, res, net, obs, reg) ==
    [op |-> op, method |-> method, req |-> req, params |-> params,
     phase |-> state, known |-> method \in DOMAIN mds,
     kind |-> res.kind, err |-> res.err, status |-> res.status,
     net |-> net, obs |-> obs, reg |-> reg, files |-> {},
     deadline |-> res.timeout, class |-> res.class,
     headers |-> IF net + reg > 0 THEN requestHeaders(params) ELSE "none"]
NoRet == [op |-> "none", method |-> "", req |-> "absent", params |-> ParamsAbsent,
          phase |-> "nil", known |-> FALSE, kind |-> "ok", err |-> "", status |-> 0,
          net |-> 0, obs |-> 0, reg |-> 0, files |-> {}, deadline |-> 0,
          class |-> "none", headers |-> "none"]

\* ---------------------------------------------------- client.go: requests
\* parseCallParams(params)
parseCallParams(params) ==
    IF state = "nil" THEN Panic("nil pointer dereference: c.vu.State().Tags")
    ELSE IF params.shape = "absent" THEN Ok(0)
    ELSE IF params.shape = "nullish"
         THEN Throw("TypeError: cannot convert undefined or null to object")
    ELSE IF params.metadata = "notobject"
         THEN Fail("metadata must be an object with key-value pairs")
    ELSE IF params.metadata = "nonstring" THEN Fail("metadata value must be string")
    ELSE IF params.bad = "tags" THEN Fail("metric tags")
    ELSE IF params.bad = "timeout" THEN Fail("invalid timeout value")
    ELSE Ok(params.timeout)

\* buildRequest(md, req, params): the request is encoded first, then the
\* params are parsed.
buildRequest(req, params) ==
    IF req = "nullish"
    THEN Throw("TypeError: cannot convert undefined or null to object")
    ELSE IF req = "unencodable" THEN Fail("protojson: cannot unmarshal request")
    ELSE parseCallParams(params)

\* What the transport can answer to a unary call: a response (whose bytes
\* decode with the output descriptor or not), an error that is a
\* *connect.Error with a code, or an error that is not; "deadline" is the
\* expiry of the call's own context.
NetOutcomes ==
    [class : {"ok"}, coded : {FALSE}, code : {0}, decodable : BOOLEAN]
    \cup [class : {"status"}, coded : {TRUE}, code : StatusCodes, decodable : {FALSE}]
    \cup [class : {"transport"}, coded : BOOLEAN, code : {14}, decodable : {FALSE}]
    \cup [class : {"deadline"}, coded : BOOLEAN, code : {StatusDeadlineExceeded},
          decodable : {FALSE}]

\* metrics.PushIfNotDone(ctx, ...) in callUnary: the sample is dropped when
\* the call's context is done.
Observed(out) == IF out.class \in {"deadline", "hang"} THEN 0 ELSE 1

\* A result that reports every error of the call as a client error
UnaryResultAllErrors(out) ==
    [(IF out.class = "ok" /\ out.decodable THEN Ok(0) ELSE Fail(out.class))
        EXCEPT !.class = out.class]

\* What Invoke returns, and AsyncInvoke's callback settles the promise with,
\* for a transport outcome.
UnaryResult(out) ==
    LET r == IF out.class = "ok"
             THEN IF out.decodable THEN Ok(0)
                  ELSE Fail("failed to unmarshal the message")
             ELSE IF out.class = "hang" THEN Result("hung", "", 0, 0)
             ELSE IF out.coded THEN Result("ok", "remote", out.code, 0)
             ELSE Fail(out.class)
    IN  [r EXCEPT !.class = out.class]

\* context.WithTimeout with no default: a non-positive timeout is no deadline
DeadlineUnset(timeout) == timeout

\* The default deadline of a unary call: 2 minutes (in units of a minute)
DefaultTimeout == 2
Deadline(timeout) == IF timeout <= 0 THEN DefaultTimeout ELSE timeout

\* The outcomes of a call made under a deadline: "deadline" is no response
\* before the deadline expired; without a deadline a call to a server that
\* never responds does not return.
Hang == [class |-> "hang", coded |-> FALSE, code |-> 0, decodable |-> FALSE]
UnaryOutcomes(deadline) ==
    IF deadline > 0 THEN NetOutcomes
    ELSE {o \in NetOutcomes : o.class # "deadline"} \cup {Hang}

\* The same checks with the nil request tested before the method lookup.
ValidateRequestFirst(method, req, params) ==
    IF req = "absent" THEN Fail("request cannot be nil")
    ELSE IF method \notin DOMAIN mds THEN Fail("method not found in file descriptors")
    ELSE buildRequest(req, params)

\* The checks Invoke and AsyncInvoke make before the call is dispatched:
\* the method lookup, the nil request, buildRequest.
Validate(method, req, params) ==
    IF method \notin DOMAIN mds THEN Fail("method not found in file descriptors")
    ELSE IF req = "absent" THEN Fail("request cannot be nil")
    ELSE buildRequest(req, params)

\* c.addr.JoinPath(method): a nil *url.URL is dereferenced
NoAddr == Panic("nil pointer dereference: c.addr.JoinPath")

\* A Go panic on a goroutine ends the process: nothing runs afterwards.
Alive == \A i \in 1..Len(acalls) : acalls[i].pc # "crashed"

Called ==
    /\ Alive
    /\ js = "script"
    /\ ncalls < MaxCalls
    /\ ncalls' = ncalls + 1

\* ------------------------------------------------------ client.go: Invoke
Invoke(method, req, params) ==
    /\ Called
    /\ LET v == Validate(method, req, params)
       IN  IF v.kind # "ok"
           THEN /\ ret' = Ret("invoke", method, req, params, v, 0, 0, 0)
                /\ UNCHANGED <<netCalls, samples>>
           ELSE IF addr = "nil"
           THEN /\ ret' = Ret("invoke", method, req, params, NoAddr, 0, 0, 0)
                /\ UNCHANGED <<netCalls, samples>>
           ELSE \E out \in UnaryOutcomes(Deadline(v.timeout)) :
                /\ netCalls' = netCalls + 1
                /\ samples' = [samples EXCEPT !.dur = @ + Observed(out)]
                /\ ret' = Ret("invoke", method, req, params,
                              [UnaryResult(out) EXCEPT !.timeout = Deadline(v.timeout)],
                              1, Observed(out), 0)
    /\ UNCHANGED <<clientVars, registered, acalls, loopVars, spc, frames, fin, sctx, smd, tq,
                   batch, listeners, nOn, onRes, emitted, events, calls, logs>>

\* ------------------------------------------------- client.go: AsyncInvoke
\* callUnary on the goroutine: connect.NewClient(c.httpClient,
\* c.addr.JoinPath(method).String(), ...) reads the client's fields when the
\* goroutine runs.
callURL(call) == addr

\* The goroutine's last statement, callback(func() error {...}): the function
\* that settles the promise is handed to the event loop.
AsyncLoopFn(i) == [type |-> "async", id |-> i]

asyncSettleOnGoroutine(i, res) ==
    /\ acalls' = [acalls EXCEPT ![i].pc = "settled", ![i].res = res, ![i].by = "bg",
                                ![i].sent = callURL(acalls[i]),
                                ![i].with = IF res.class = "ok"
                                            THEN outputDescriptor(acalls[i]) ELSE "none",
                                ![i].promise =
                                    IF res.kind = "ok" THEN "resolved" ELSE "rejected"]
    /\ loopq' = Append(loopq, Noop)
    /\ registered' = registered - 1

asyncComplete(i, res) ==
    /\ acalls' = [acalls EXCEPT ![i].pc = "returned", ![i].res = res,
                                ![i].sent = callURL(acalls[i]),
                                ![i].with = IF res.class = "ok"
                                            THEN outputDescriptor(acalls[i]) ELSE "none"]
    /\ loopq' = Append(loopq, AsyncLoopFn(i))
    /\ registered' = registered - 1

AsyncInvoke(method, req, params) ==
    /\ Called
    /\ LET v == Validate(method, req, params)
           rejected == [v EXCEPT !.kind = "rejected"]
           pending == [Ok(Deadline(v.timeout)) EXCEPT !.kind = "pending"]
       IN  IF v.kind # "ok"
           THEN /\ ret' = Ret("asyncInvoke", method, req, params,
                              IF v.kind = "error" THEN rejected ELSE v, 0, 0, 0)
                /\ UNCHANGED <<registered, acalls>>
           ELSE \E tagURL \in BOOLEAN :
                IF addr = "nil" /\ tagURL
                THEN /\ ret' = Ret("asyncInvoke", method, req, params, NoAddr, 0, 0, 0)
                     /\ UNCHANGED <<registered, acalls>>
                ELSE /\ registered' = registered + 1
                     /\ acalls' = Append(acalls,
                            [method |-> method, md |-> mds[method], with |-> "none",
                             tagged |-> addr, sent |-> "none",
                             pc |-> "spawned", promise |-> "pending", by |-> "",
                             res |-> Ok(0), timeout |-> Deadline(v.timeout)])
                     /\ ret' = Ret("asyncInvoke", method, req, params, pending, 0, 0, 1)
    /\ UNCHANGED <<clientVars, netCalls, samples, loopVars, spc, frames, fin, sctx, smd, tq,
                   batch, listeners, nOn, onRes, emitted, events, calls, logs>>

\* go func() { ... callUnary ... callback(...) }()
AsyncGo(i) ==
    /\ Alive
    /\ acalls[i].pc = "spawned"
    /\ IF addr = "nil"
       THEN /\ acalls' = [acalls EXCEPT ![i].pc = "crashed"]
            /\ UNCHANGED <<netCalls, samples, loopq, registered>>
       ELSE \E out \in UnaryOutcomes(acalls[i].timeout) :
            /\ netCalls' = netCalls + 1
            /\ samples' = [samples EXCEPT !.dur = @ + Observed(out)]
            /\ asyncComplete(i, UnaryResult(out))
    /\ UNCHANGED <<clientVars, ret, ncalls, js, loopErr, spc, frames, fin, sctx, smd, tq,
                   batch, listeners, nOn, onRes, emitted, events, calls, logs>>

\* The event loop runs the function the goroutine handed it: resolve or
\* reject; the function returns nil on every path.
LoopAsync ==
    /\ Alive
    /\ LoopReady
    /\ Head(loopq).type = "async"
    /\ loopq' = Tail(loopq)
    /\ LET i == Head(loopq).id
       IN  acalls' = [acalls EXCEPT ![i].pc = "settled", ![i].by = "js",
                                    ![i].promise = IF acalls[i].res.kind = "ok"
                                                   THEN "resolved" ELSE "rejected"]
    /\ UNCHANGED <<clientVars, netCalls, samples, registered, ret, ncalls, js, loopErr,
                   spc, frames, fin, sctx, smd, tq, batch, listeners, nOn, onRes,
                   emitted, events, calls,
                   logs>>

\* ------------------------------------------------------ client.go: Stream
\* begin as the task-queue revision of stream.go has it: the call is opened
\* under s.vu.Context(), whatever the caller computed.
beginUnderVUContext(ctx) == "vu"

\* s.begin(ctx, connectReq): the server-streaming call is opened under the
\* context Stream passes.
begin(ctx) == ctx

\* A stream context with a deadline in every case, as the unary calls have
streamContextWithDefault(timeout) == "timeout"

\* ctx := c.vu.Context(); if timeout > 0 { ctx, cancel = context.WithTimeout }
streamContext(timeout) == IF timeout > 0 THEN "timeout" ELSE "vu"

Stream(method, req, params) ==
    /\ Called
    /\ spc = "none"
    /\ LET v == IF method \notin DOMAIN mds THEN Fail("method not found in file descriptors")
                ELSE IF req = "absent" THEN Fail("request cannot be nil")
                ELSE IF addr = "nil" THEN NoAddr
                ELSE buildRequest(req, params)
       IN  IF v.kind # "ok"
           THEN /\ ret' = Ret("stream", method, req, params, v, 0, 0, 0)
                /\ UNCHANGED <<netCalls, samples, registered, spc, sctx, smd, tq, listeners>>
           ELSE \E opened \in BOOLEAN :
                /\ netCalls' = netCalls + 1
                /\ registered' = TqNew(Sched).registered
                /\ tq' = TqNew(Sched).tq
                /\ sctx' = begin(streamContext(v.timeout))
                /\ smd' = [method |-> method, md |-> mds[method], with |-> "none"]
                /\ listeners' = newEventListeners
                /\ IF opened
                   THEN /\ samples' = [samples EXCEPT !.streams = @ + 1]
                        /\ spc' = "recv"
                        /\ ret' = Ret("stream", method, req, params, Ok(v.timeout),
                                      1, 0, 1)
                   ELSE /\ samples' = samples
                        /\ spc' = "unopened"
                        /\ ret' = Ret("stream", method, req, params,
                                      Fail("CallServerStream"), 1, 0, 1)
    /\ UNCHANGED <<clientVars, acalls, loopVars, frames, fin, batch, nOn, onRes,
                   emitted, events, calls,
                   logs>>

\* -------------------------------------------------------- client.go: Load
\* registerMethods storing only the methods of the new set
registerMethodsReplacing(fdset) == [p \in MethodsOf(fdset) |-> DescOf(fdset, p)]

\* registerMethods(fdset): every method of the set is stored under its path
registerMethods(fdset) ==
    [p \in DOMAIN mds \cup MethodsOf(fdset) |->
        IF p \in MethodsOf(fdset) THEN DescOf(fdset, p) ELSE mds[p]]

\* The same on the second client instance: its receiver's map is written.
peerRegisterMethods(fdset) ==
    [p \in DOMAIN peer \cup MethodsOf(fdset) |->
        IF p \in MethodsOf(fdset) THEN DescOf(fdset, p) ELSE peer[p]]

\* Load without the test of c.vu.State()
LoadInAnyPhase(filenames, env, parsed, built) ==
    /\ Called
    /\ IF ~env \/ ~parsed \/ ~built
       THEN /\ ret' = Ret("load", "", "absent", ParamsAbsent, Fail("parse"), 0, 0, 0)
            /\ mds' = mds
       ELSE /\ ret' = Ret("load", "", "absent", ParamsAbsent, Ok(0), 0, 0, 0)
            /\ mds' = registerMethods(filenames)
    /\ UNCHANGED <<state, addr, httpClient, peer, codecVars, netCalls, samples, registered, acalls,
                   loopVars, spc, frames, fin, sctx, smd, tq, batch, listeners, nOn, onRes,
                   emitted,
                   events, calls, logs>>

\* Load storing the methods of each parsed file as it goes, before the set
\* as a whole is checked
LoadStoringAsItGoes(filenames, env, parsed, built) ==
    /\ Called
    /\ LET lret(res) == [Ret("load", "", "absent", ParamsAbsent, res, 0, 0, 0)
                            EXCEPT !.files = filenames]
       IN  IF state # "nil"
           THEN /\ ret' = lret(Fail("load must be called in the init context"))
                /\ mds' = mds
           ELSE IF ~env
           THEN /\ ret' = lret(Fail("missing init environment"))
                /\ mds' = mds
           ELSE IF ~parsed \/ ~Consistent(filenames)
           THEN /\ ret' = lret(Fail("parse"))
                /\ mds' = mds
           ELSE IF ~built
           THEN /\ ret' = lret(Fail("protodesc.NewFiles"))
                /\ mds' = registerMethods({CHOOSE f \in filenames : TRUE})
           ELSE /\ ret' = lret(Ok(0))
                /\ mds' = registerMethods(filenames)
    /\ UNCHANGED <<state, addr, httpClient, peer, codecVars, netCalls, samples, registered, acalls,
                   loopVars, spc, frames, fin, sctx, smd, tq, batch, listeners, nOn, onRes,
                   emitted,
                   events, calls, logs>>

Load(filenames, env, parsed, built) ==
    /\ Called
    /\ LET lret(res) == [Ret("load", "", "absent", ParamsAbsent, res, 0, 0, 0)
                            EXCEPT !.files = filenames]
       IN  IF state # "nil"
           THEN /\ ret' = lret(Fail("load must be called in the init context"))
                /\ mds' = mds
           ELSE IF ~env
           THEN /\ ret' = lret(Fail("missing init environment"))
                /\ mds' = mds
           ELSE IF ~parsed \/ ~Consistent(filenames)
           THEN /\ ret' = lret(Fail("parse"))
                /\ mds' = mds
           ELSE IF ~built
           THEN /\ ret' = lret(Fail("protodesc.NewFiles"))
                /\ mds' = mds
           ELSE /\ ret' = lret(Ok(0))
                /\ mds' = registerMethods(filenames)
    /\ UNCHANGED <<state, addr, httpClient, peer, codecVars, netCalls, samples, registered, acalls,
                   loopVars, spc, frames, fin, sctx, smd, tq, batch, listeners, nOn, onRes,
                   emitted,
                   events, calls, logs>>

\* ----------------------------------------------------- client.go: Connect
\* The params of connect: absent or null, or an object whose reflect and
\* metadata keys are as named.
ConnectParams ==
    {[shape |-> "nullish", reflect |-> "unset", metadata |-> "unset"]}
    \cup [shape : {"object"}, reflect : {"unset", "true", "false", "notbool"},
          metadata : {"unset", "strings", "notobject", "nonstring"}]

\* The options of a connect call as the record of the call keeps them: the
\* metadata given, and the header set reflectServer passes on with the
\* reflection query (opts = append(opts, WithRequestHeaders(header)))
connectOptions(p) ==
    [shape |-> p.shape, bad |-> IF p.reflect = "notbool" THEN "reflect" ELSE "none",
     timeout |-> 0, metadata |-> p.metadata]

\* parseConnectParams(params): result.metadata is a nil map, so storing a
\* string value in it panics.
parseConnectParams(p) ==
    IF p.shape = "nullish" THEN Ok(0)
    ELSE IF p.reflect = "notbool" THEN Fail("reflect value must be boolean")
    ELSE IF p.metadata = "notobject"
         THEN Fail("metadata must be an object with key-value pairs")
    ELSE IF p.metadata = "nonstring" THEN Fail("metadata value must be string")
    ELSE IF p.metadata = "strings" THEN Panic("assignment to entry in nil map")
    ELSE Ok(0)

Addresses == {"http://a"}
BadAddress == "::bad"

\* connect(address, {reflect: true})
Reflecting == [shape |-> "object", reflect |-> "true", metadata |-> "unset"]

\* The services the files declare: file b declares two.
FileServices == [a |-> <<"a.A">>, b |-> <<"b.B", "b.Admin">>, c |-> <<"a.A">>]
FileOrder == <<"a", "b", "c">>

\* stream.FileContainingSymbol(name) for every name of one file: the server
\* answers each with the file that declares the name
RECURSIVE FilesForSymbols(_, _)
FilesForSymbols(f, names) ==
    IF names = <<>> THEN <<>> ELSE <<f>> \o FilesForSymbols(f, Tail(names))

\* reflectServer: for _, name := range names { fdset.File = append(fdset.File,
\* fds...) } over the services the server lists, those of its files
RECURSIVE reflectServer(_, _)
reflectServer(server, i) ==
    IF i > Len(FileOrder) THEN <<>>
    ELSE (IF FileOrder[i] \in server
          THEN FilesForSymbols(FileOrder[i], FileServices[FileOrder[i]])
          ELSE <<>>) \o reflectServer(server, i + 1)

\* protodesc.NewFiles(fdset): "file appears multiple times" when two entries
\* of the set have one name
NewFilesAccepts(fdseq) == \A i, j \in 1..Len(fdseq) : i # j => fdseq[i] # fdseq[j]

Connect(a, p, reflected, built) ==
    /\ Called
    /\ LET cret(res, net) == [Ret("connect", a, "absent", connectOptions(p), res, net, 0, 0)
                                 EXCEPT !.files = reflected]
           v == parseConnectParams(p)
       IN  IF state = "nil"
           THEN /\ ret' = cret(Fail("connecting in the init context is not supported"), 0)
                /\ UNCHANGED <<mds, addr, httpClient, netCalls>>
           ELSE IF v.kind # "ok"
           THEN /\ ret' = cret(v, 0)
                /\ UNCHANGED <<mds, addr, httpClient, netCalls>>
           ELSE IF a = BadAddress
           THEN /\ ret' = cret(Fail("url.Parse"), 0)
                /\ addr' = "nil"
                /\ UNCHANGED <<mds, httpClient, netCalls>>
           ELSE /\ addr' = a
                /\ httpClient' = "set"
                /\ IF p.reflect # "true"
                   THEN /\ ret' = cret(Ok(0), 0)
                        /\ UNCHANGED <<mds, netCalls>>
                   ELSE /\ netCalls' = netCalls + 1
                        /\ IF reflected = {}
                           THEN ret' = cret(Fail("reflection"), 1) /\ mds' = mds
                           ELSE IF ~NewFilesAccepts(reflectServer(reflected, 1))
                           THEN /\ ret' = cret(Fail("file appears multiple times"), 1)
                                /\ mds' = mds
                           ELSE IF ~built
                           THEN ret' = cret(Fail("protodesc.NewFiles"), 1) /\ mds' = mds
                           ELSE ret' = cret(Ok(0), 1) /\ mds' = registerMethods(reflected)
    /\ UNCHANGED <<state, peer, codecVars, samples, registered, acalls, loopVars, spc,
                   frames, fin, sctx, smd, tq, batch, listeners, nOn, onRes, emitted, events,
                   calls, logs>>

\* ------------------------------------------ a second instance: new Client()
\* A registration that writes one map shared by every instance
PeerRegisterShared(op, fdset) ==
    /\ Called
    /\ ret' = [Ret(op, "", "absent", ParamsAbsent, Ok(0), 0, 0, 0) EXCEPT !.files = fdset]
    /\ peer' = peerRegisterMethods(fdset)
    /\ mds' = registerMethods(fdset)
    /\ UNCHANGED <<state, addr, httpClient, codecVars, netCalls, samples, registered, acalls,
                   loopVars, spc, frames, fin, sctx, smd, tq, batch, listeners, nOn, onRes,
                   emitted,
                   events, calls, logs>>

\* A successful load, or reflecting connect, on the second instance
PeerRegister(op, fdset) ==
    /\ Called
    /\ ret' = [Ret(op, "", "absent", ParamsAbsent, Ok(0), 0, 0, 0) EXCEPT !.files = fdset]
    /\ peer' = peerRegisterMethods(fdset)
    /\ UNCHANGED <<state, mds, addr, httpClient, codecVars, netCalls, samples, registered, acalls,
                   loopVars, spc, frames, fin, sctx, smd, tq, batch, listeners, nOn, onRes,
                   emitted,
                   events, calls, logs>>

PeerLoad(filenames) == state = "nil" /\ PeerRegister("peer.load", filenames)

PeerConnect(reflected) ==
    /\ state # "nil"
    /\ NewFilesAccepts(reflectServer(reflected, 1))
    /\ PeerRegister("peer.connect", reflected)

\* The host moves the VU from the init context to the execution phase.
MoveToVUContext ==
    /\ Alive
    /\ js = "script"
    /\ state = "nil"
    /\ state' = "vu"
    /\ UNCHANGED <<mds, addr, httpClient, peer, codecVars, netCalls, samples, registered, callVars,
                   loopVars, spc, frames, fin, sctx, smd, tq, batch, listeners, nOn, onRes,
                   emitted,
                   events, calls, logs>>

\* ------------------------------------------------------------ codec.go
MaxLen == 2
Bytes == {0, 1}
Buffers == UNION {[1..n -> Bytes] : n \in 0..MaxLen}
Targets == {"deferred", "proto", "other"}

\* deferredMessage{} before any Unmarshal, beside the framework's empty buffer.
\* buf is the byte slice the framework hands to Unmarshal and re-uses; data is
\* deferred.data and shared tells whether it has buf's backing array; given and
\* prev record the bytes of the last call and what data held before it.
NoCodec ==
    [buf |-> <<>>, data |-> <<>>, shared |-> FALSE, given |-> <<>>, prev |-> <<>>,
     target |-> "none", err |-> "none"]

\* The bytes a slice over the framework's array shows once bs is written there
Overwritten(old, bs) == [i \in 1..Len(old) |-> IF i <= Len(bs) THEN bs[i] ELSE old[i]]

\* deferred.data = bytes: the slice itself, no copy
unmarshalWithoutCopy(c) ==
    [c EXCEPT !.data = c.buf, !.shared = TRUE, !.given = c.buf, !.prev = c.data,
              !.target = "deferred", !.err = "nil"]

\* make([]byte, len(bytes)) and copy(deferred.data, bytes)
unmarshalDeferred(c) ==
    [c EXCEPT !.data = [i \in 1..Len(c.buf) |-> c.buf[i]], !.shared = FALSE,
              !.given = c.buf, !.prev = c.data, !.target = "deferred", !.err = "nil"]

\* protoCodec.Unmarshal(bytes, a)
Unmarshal(a, decodable) ==
    /\ codec' = IF a = "deferred" THEN unmarshalDeferred(codec)
                ELSE IF a = "proto"
                THEN [codec EXCEPT !.target = a,
                                   !.err = IF decodable THEN "nil" ELSE "error"]
                ELSE [codec EXCEPT !.target = a, !.err = "error"]
    /\ UNCHANGED <<state, mds, addr, httpClient, peer, trip, walk, netCalls, samples,
                   registered, callVars, loopVars, spc, frames, fin, sctx, smd, tq, batch,
                   listeners, nOn, onRes, emitted, events, calls, logs>>

\* The framework reads the next message into the byte slice it re-uses.
ReuseBuffer(bs) ==
    /\ bs # codec.buf
    /\ codec' = [codec EXCEPT !.buf = bs,
                              !.data = IF codec.shared THEN Overwritten(codec.data, bs)
                                       ELSE codec.data]
    /\ UNCHANGED <<state, mds, addr, httpClient, peer, trip, walk, netCalls, samples,
                   registered, callVars, loopVars, spc, frames, fin, sctx, smd, tq, batch,
                   listeners, nOn, onRes, emitted, events, calls, logs>>

\* ------------------------------- client.go: buildRequest, convertMessageToJSON
\* A message type with one field f of the given kind, singular or repeated.  A
\* field of kind "message" holds a message with one int32 field x; the enum
\* has the values ZERO = 0 and ONE = 1.
MaxItems == 2
Kinds == {"bool", "int32", "int64", "uint32", "uint64", "float", "double", "string",
          "bytes", "enum", "message"}
Descriptors == [kind : Kinds, rep : BOOLEAN]

\* A JSON value: its type and its text
J(t, v) == [t |-> t, v |-> v]

\* The script values a field of each kind accepts: numbers for the numeric
\* kinds (and the decimal string for the 64-bit ones), base64 text for bytes,
\* the name or the number of an enum value, an object for a message.
HostScalars(kind) ==
    CASE kind = "bool" -> {J("bool", "false"), J("bool", "true")}
      [] kind \in {"int32", "uint32"} -> {J("num", "0"), J("num", "1")}
      [] kind \in {"int64", "uint64"} -> {J("num", "0"), J("num", "1"), J("str", "1")}
      [] kind \in {"float", "double"} -> {J("num", "0"), J("num", "1.5")}
      [] kind = "string" -> {J("str", ""), J("str", "x")}
      [] kind = "bytes" -> {J("str", ""), J("str", "AQ==")}
      [] kind = "enum" -> {J("str", "ZERO"), J("str", "ONE"), J("num", "1")}
      [] kind = "message" -> {J("obj", "{}"), J("obj", "{x:1}")}

SeqsUpTo(S, n) == UNION {[1..k -> S] : k \in 0..n}

\* The script objects that conform to a descriptor: the key f absent, or
\* present with one value, or with a list of values when the field is repeated
HostValues(d) ==
    {[has |-> FALSE, items |-> <<>>]}
    \cup {[has |-> TRUE, items |-> s] :
            s \in IF d.rep THEN SeqsUpTo(HostScalars(d.kind), MaxItems)
                           ELSE [1..1 -> HostScalars(d.kind)]}

EnumNumber == [ZERO |-> "0", ONE |-> "1"]
EnumName == [n \in {"0", "1"} |-> IF n = "0" THEN "ZERO" ELSE "ONE"]
Base64Decode == [t \in {"", "AQ=="} |-> IF t = "" THEN "" ELSE "01"]
Base64Encode == [b \in {"", "01"} |-> IF b = "" THEN "" ELSE "AQ=="]
InnerUnmarshal == [t \in {"{}", "{x:0}", "{x:1}"} |-> IF t = "{x:1}" THEN "x=1" ELSE "x=0"]
InnerMarshal == [m \in {"x=0", "x=1"} |-> IF m = "x=1" THEN "{x:1}" ELSE "{x:0}"]

\* The zero value of a scalar kind, which proto3 does not put on the wire
Zero(kind) ==
    CASE kind = "bool" -> "false"
      [] kind \in {"string", "bytes"} -> ""
      [] kind = "message" -> "x=0"
      [] OTHER -> "0"

\* protojson.Unmarshal of one JSON value into a field of the kind
unmarshalScalar(kind, j) ==
    CASE kind = "enum" -> IF j.t = "str" THEN EnumNumber[j.v] ELSE j.v
      [] kind = "bytes" -> Base64Decode[j.v]
      [] kind = "message" -> InnerUnmarshal[j.v]
      [] OTHER -> j.v

\* protojson.Marshal of one field value: 64-bit integers as strings, enum
\* values by name, bytes as base64
marshalScalar(kind, v) ==
    CASE kind = "bool" -> J("bool", v)
      [] kind \in {"int32", "uint32", "float", "double"} -> J("num", v)
      [] kind \in {"int64", "uint64", "string"} -> J("str", v)
      [] kind = "bytes" -> J("str", Base64Encode[v])
      [] kind = "enum" -> J("str", EnumName[v])
      [] kind = "message" -> J("obj", InnerMarshal[v])

\* protojson.Unmarshal is UnmarshalOptions{}.Unmarshal: DiscardUnknown is not
\* set, so a key that names no field of the message is an error ("unknown
\* field"); extra tells whether the script object has such a key.
protojsonRejects(extra) == extra

\* protojson.Unmarshal(b, msg): the dynamic message, its field set or not
protojsonUnmarshal(d, value) ==
    [set |-> value.has /\ value.items # <<>>,
     vals |-> [i \in 1..Len(value.items) |-> unmarshalScalar(d.kind, value.items[i])]]

\* proto.Marshal: the values of field f on the wire; a singular scalar that
\* holds its zero value is left out, a message field is written when set
protoMarshal(d, msg) ==
    IF ~msg.set THEN <<>>
    ELSE IF ~d.rep /\ d.kind # "message" /\ msg.vals[1] = Zero(d.kind) THEN <<>>
    ELSE msg.vals

\* proto.Unmarshal(data, msg)
protoUnmarshal(d, wire) == [set |-> wire # <<>>, vals |-> wire]

\* protojson.MarshalOptions{EmitUnpopulated: true}.Marshal(msg) and
\* json.Unmarshal: the key is always there; an unset field is [] when
\* repeated, null when a message, the zero value otherwise
protojsonMarshal(d, msg) ==
    [has |-> TRUE,
     items |-> IF d.rep
               THEN [i \in 1..Len(msg.vals) |-> marshalScalar(d.kind, msg.vals[i])]
               ELSE IF msg.set THEN <<marshalScalar(d.kind, msg.vals[1])>>
               ELSE IF d.kind = "message" THEN <<J("null", "")>>
               ELSE <<marshalScalar(d.kind, Zero(d.kind))>>]

NoMessage == [set |-> FALSE, vals |-> <<>>]
NoValue == [has |-> FALSE, items |-> <<>>]
NoTrip ==
    [at |-> "none", d |-> [kind |-> "bool", rep |-> FALSE], value |-> NoValue,
     extra |-> FALSE, msg |-> NoMessage, wire |-> <<>>, back |-> NoValue]

TripStep ==
    UNCHANGED <<state, mds, addr, httpClient, peer, codec, walk, netCalls, samples,
                registered,
                callVars, loopVars, spc, frames, fin, sctx, smd, tq, batch, listeners, nOn, onRes,
                emitted, events, calls, logs>>

\* buildRequest: req.ToObject(rt).MarshalJSON(), protojson.Unmarshal into
\* dynamicpb.NewMessage(md.Input())
BuildRequestMessage ==
    /\ trip.at = "given"
    /\ trip' = IF protojsonRejects(trip.extra) THEN [trip EXCEPT !.at = "failed"]
               ELSE [trip EXCEPT !.at = "built",
                                 !.msg = protojsonUnmarshal(trip.d, trip.value)]
    /\ TripStep

\* protoCodec.Marshal(a): the request message on the wire
Marshal ==
    /\ trip.at = "built"
    /\ trip' = [trip EXCEPT !.at = "sent", !.wire = protoMarshal(trip.d, trip.msg)]
    /\ TripStep

\* convertMessageToJSON(md, data), of the same bytes under the same descriptor
ConvertMessageToJSON ==
    /\ trip.at = "sent"
    /\ trip' = [trip EXCEPT !.at = "decoded",
                            !.back = protojsonMarshal(trip.d,
                                                      protoUnmarshal(trip.d, trip.wire))]
    /\ TripStep

\* ----------------------------------------- client.go: walkFileDescriptors
\* The parsed files: a dependency graph over the file names, each file's
\* GetDependencies() in the order of FileOrder, and the files Load was given.
MaxRoots == 2
Graphs == [Files -> SUBSET Files]
RECURSIVE SeqOfSet(_, _)
SeqOfSet(S, i) ==
    IF i > Len(FileOrder) THEN <<>>
    ELSE (IF FileOrder[i] \in S THEN <<FileOrder[i]>> ELSE <<>>) \o SeqOfSet(S, i + 1)
RootLists == UNION {[1..n -> Files] : n \in 1..MaxRoots}

NoWalk ==
    [deps |-> [f \in Files |-> {}], given |-> <<>>, roots |-> <<>>, stack |-> <<>>,
     seen |-> {}, fdset |-> <<>>]

\* A seen map made anew for every file Load was given
seenPerRoot(seen) == {}

\* seen := make(map[string]struct{}) before the loop: one map for the call
seenShared(seen) == seen

\* walkFileDescriptors(seen, fd) up to its first recursive call: a file that
\* was seen returns the empty list to its caller; any other is marked, put
\* first in its own list, and its dependencies are walked next.
walkCall(w, fd) ==
    IF fd \in w.seen THEN w
    ELSE [w EXCEPT !.seen = @ \cup {fd},
                   !.stack = Append(@, [fd |-> fd, fds |-> <<fd>>,
                                        todo |-> SeqOfSet(w.deps[fd], 1)])]

WalkStep ==
    UNCHANGED <<state, mds, addr, httpClient, peer, codec, trip, netCalls, samples,
                registered, callVars, loopVars, spc, frames, fin, sctx, smd, tq, batch,
                listeners, nOn, onRes, emitted, events, calls, logs>>

\* for _, fd := range fds { ... walkFileDescriptors(seen, fd) ... }
WalkRoot ==
    /\ walk.stack = <<>>
    /\ walk.roots # <<>>
    /\ walk' = walkCall([walk EXCEPT !.roots = Tail(@), !.seen = seenShared(@)],
                        Head(walk.roots))
    /\ WalkStep

\* for _, dep := range fd.GetDependencies() { deps := walkFileDescriptors(seen, dep)
WalkDep ==
    /\ walk.stack # <<>>
    /\ walk.stack[Len(walk.stack)].todo # <<>>
    /\ LET top == Len(walk.stack)
       IN  walk' = walkCall([walk EXCEPT !.stack[top].todo = Tail(@)],
                           Head(walk.stack[top].todo))
    /\ WalkStep

\* return fds: the caller appends the list to its own, Load to fdset.File
WalkReturn ==
    /\ walk.stack # <<>>
    /\ walk.stack[Len(walk.stack)].todo = <<>>
    /\ LET top == Len(walk.stack)
           rest == SubSeq(walk.stack, 1, top - 1)
       IN  walk' = IF top = 1
                   THEN [walk EXCEPT !.stack = <<>>,
                                     !.fdset = @ \o walk.stack[top].fds]
                   ELSE [walk EXCEPT !.stack =
                             [rest EXCEPT ![top - 1].fds = @ \o walk.stack[top].fds]]
    /\ WalkStep

\* ------------------------------------------------------- specifications
NoStream ==
    /\ spc = "none"
    /\ frames = <<>>
    /\ fin = Open
    /\ sctx = "vu"
    /\ smd = NoDescriptor
    /\ tq = [queue |-> <<>>, closed |-> FALSE]
    /\ batch = <<>>
    /\ listeners = newEventListeners
    /\ nOn = 0
    /\ onRes = NoOn
    /\ emitted = <<>>
    /\ events = <<>>
    /\ calls = <<>>

Fresh ==
    /\ peer = NoMethods
    /\ codec = NoCodec
    /\ trip = NoTrip
    /\ walk = NoWalk
    /\ netCalls = 0
    /\ samples = [dur |-> 0, streams |-> 0, msgs |-> 0]
    /\ registered = 0
    /\ ret = NoRet
    /\ ncalls = 0
    /\ acalls = <<>>
    /\ js = "script"
    /\ loopq = <<>>
    /\ loopErr = FALSE
    /\ logs = 0
    /\ NoStream

\* newClient in the init context
Init ==
    /\ state = "nil"
    /\ mds = NoMethods
    /\ addr = "nil"
    /\ httpClient = "nil"
    /\ Fresh

Next ==
    \/ \E f \in (SUBSET Files) \ {{}}, env \in BOOLEAN :
          \E parsed \in (IF env THEN BOOLEAN ELSE {TRUE}) :
             \E built \in (IF parsed THEN BOOLEAN ELSE {TRUE}) : Load(f, env, parsed, built)
    \/ MoveToVUContext
    \/ \E a \in Addresses \cup {BadAddress}, p \in ConnectParams :
          \E r \in (IF p.reflect = "true" THEN {f \in SUBSET Files : Consistent(f)}
                                           ELSE {{}}) :
             \E built \in (IF r = {} THEN {TRUE} ELSE BOOLEAN) : Connect(a, p, r, built)
    \/ \E m \in Paths, rq \in Requests, p \in Params : Invoke(m, rq, p)
    \/ \E m \in Paths, rq \in Requests, p \in Params : AsyncInvoke(m, rq, p)
    \/ \E m \in Paths, rq \in Requests, p \in Params : Stream(m, rq, p)
    \/ \E i \in 1..Len(acalls) : AsyncGo(i)
    \/ Yield
    \/ LoopAsync

Spec == Init /\ [][Next]_vars

\* A VU in the execution phase whose client loaded both files in the init
\* context and connected: the script opens one stream and registers
\* listeners, then returns to the event loop.
InitStream ==
    /\ state = "vu"
    /\ mds = [p \in Methods |-> DescOf({"a", "b"}, p)]
    /\ addr = "http://a"
    /\ httpClient = "set"
    /\ Fresh

StreamParams ==
    {ParamsAbsent}
    \cup [shape : {"object"}, bad : {"none"}, timeout : {-1, 1}, metadata : {"unset"}]

NextStream ==
    \/ \E p \in StreamParams : Stream("/b.B/Watch", "object", p)
    \/ \E k \in OnKinds, h \in Handlers \cup {NilHandler} :
            /\ h \in Handlers => h.id = nOn + 1
            /\ On(k, h)
    \/ Yield
    \/ Receive
    \/ StreamErr
    \/ DeferQueueClose
    \/ DeferTqClose
    \/ LoopInnerQueue
    \/ LoopNoop
    \/ Dispatch

SpecStream == InitStream /\ [][NextStream]_vars

\* Two client instances of one VU, each registering descriptor sets.
FileSets == {f \in (SUBSET Files) \ {{}} : Consistent(f)}

NextClients ==
    \/ \E f \in FileSets, parsed \in BOOLEAN : Load(f, TRUE, parsed, TRUE)
    \/ \E f \in FileSets : PeerLoad(f)
    \/ MoveToVUContext
    \/ \E r \in FileSets \cup {{}} :
          Connect("http://a", [shape |-> "object", reflect |-> "true", metadata |-> "unset"],
                  r, TRUE)
    \/ \E r \in FileSets : PeerConnect(r)

SpecClients == Init /\ [][NextClients]_vars

\* A VU in the execution phase whose client loaded files a and b in the init
\* context and connected: the script issues calls and connects again with
\* reflection while calls are in flight and a stream is open.
InitInFlight ==
    /\ state = "vu"
    /\ mds = [p \in Methods |-> DescOf({"a", "b"}, p)]
    /\ addr = "http://a"
    /\ httpClient = "set"
    /\ Fresh

NextInFlight ==
    \/ \E m \in Methods : AsyncInvoke(m, "object", ParamsAbsent)
    \/ \E m \in Methods : Stream(m, "object", ParamsAbsent)
    \/ \E r \in {f \in SUBSET Files : Consistent(f)} \ {{}} :
          Connect("http://a", Reflecting, r, TRUE)
    \/ \E i \in 1..Len(acalls) : AsyncGo(i)
    \/ Receive
    \/ Yield
    \/ LoopAsync

SpecInFlight == InitInFlight /\ [][NextInFlight]_vars

\* A second server the script connects to.
OtherAddress == "http://b"

\* connect(address) with no options
NotReflecting == [shape |-> "nullish", reflect |-> "unset", metadata |-> "unset"]

\* The script of a connected client issues asyncInvoke calls and connects
\* again, to the same server, to another one or to an address that does not
\* parse, while the goroutines of the calls run when the scheduler lets them.
NextRedirect ==
    \/ AsyncInvoke("/a.A/Get", "object", ParamsAbsent)
    \/ \E a \in Addresses \cup {OtherAddress, BadAddress} : Connect(a, NotReflecting, {}, TRUE)
    \/ \E i \in 1..Len(acalls) : AsyncGo(i)
    \/ Yield
    \/ LoopAsync

SpecRedirect == InitInFlight /\ [][NextRedirect]_vars

\* The codec under the framework: any interleaving of reads and Unmarshal calls
NextCodec ==
    \/ \E bs \in Buffers : ReuseBuffer(bs)
    \/ \E a \in Targets, decodable \in BOOLEAN : Unmarshal(a, decodable)

SpecCodec == Init /\ [][NextCodec]_vars

\* A request value and back: any conforming value of any descriptor, with or
\* without a key that names no field, is encoded as a request and the bytes
\* are decoded as a response of the same type.
InitTrip ==
    /\ state = "vu"
    /\ mds = NoMethods
    /\ addr = "nil"
    /\ httpClient = "nil"
    /\ peer = NoMethods
    /\ codec = NoCodec
    /\ walk = NoWalk
    /\ \E d \in Descriptors : \E v \in HostValues(d) :
          \E x \in BOOLEAN :
             trip = [NoTrip EXCEPT !.at = "given", !.d = d, !.value = v, !.extra = x]
    /\ netCalls = 0
    /\ samples = [dur |-> 0, streams |-> 0, msgs |-> 0]
    /\ registered = 0
    /\ ret = NoRet
    /\ ncalls = 0
    /\ acalls = <<>>
    /\ js = "script"
    /\ loopq = <<>>
    /\ loopErr = FALSE
    /\ logs = 0
    /\ NoStream

\* One Load call's walk over any dependency graph of the files, cyclic ones
\* included, from any list of given files; the loop runs to its end.
InitWalk ==
    /\ state = "nil"
    /\ mds = NoMethods
    /\ addr = "nil"
    /\ httpClient = "nil"
    /\ peer = NoMethods
    /\ codec = NoCodec
    /\ trip = NoTrip
    /\ \E g \in Graphs, r \in RootLists :
          walk = [NoWalk EXCEPT !.deps = g, !.given = r, !.roots = r]
    /\ netCalls = 0
    /\ samples = [dur |-> 0, streams |-> 0, msgs |-> 0]
    /\ registered = 0
    /\ ret = NoRet
    /\ ncalls = 0
    /\ acalls = <<>>
    /\ js = "script"
    /\ loopq = <<>>
    /\ loopErr = FALSE
    /\ logs = 0
    /\ NoStream

NextWalk == WalkRoot \/ WalkDep \/ WalkReturn

SpecWalk == InitWalk /\ [][NextWalk]_vars /\ WF_vars(NextWalk)

NextTrip == BuildRequestMessage \/ Marshal \/ ConvertMessageToJSON

SpecTrip == InitTrip /\ [][NextTrip]_vars

\* ============================================================ properties
\* ------------------------------------------------------------- the stream
CountKind(seq, k) == Cardinality({i \in 1..Len(seq) : seq[i].kind = k})

\* The data tasks of the first n frames, in receipt order
DataSeq(n) == [i \in 1..n |-> DataTask(i)]

AllDecodable == \A i \in 1..Len(frames) : frames[i]

\* The goroutine has returned and the script has returned to the event loop,
\* which has nothing left to run or has stopped.
Settled ==
    /\ spc = "done"
    /\ js = "idle"
    /\ batch = <<>>
    /\ (loopq = <<>> \/ loopErr)

\* C1: when the server sends N decodable messages and completes normally, the
\* handle delivers exactly the N data events in receipt order, then exactly
\* one end event, and no error event.
C1_DataThenEnd ==
    (Settled /\ fin.kind = "eof" /\ AllDecodable)
        => events = DataSeq(Len(frames)) \o <<EndTask>>

\* A normally completed stream whose end event was never delivered.
C1_EndLost ==
    /\ Settled /\ fin.kind = "eof" /\ AllDecodable
    /\ Len(frames) = MaxMsgs
    /\ CountKind(events, eventTypeEnd) = 0

\* C2: when the server sends K decodable messages and fails with status S, the
\* handle delivers the K data events in receipt order, then exactly one error
\* event carrying S, then exactly one end event.
C2_DataErrorEnd ==
    (Settled /\ fin.kind = "status" /\ AllDecodable)
        => events = DataSeq(Len(frames)) \o <<ErrorTask(fin.code), EndTask>>

\* A stream failed with a status whose error event was never delivered.
C2_ErrorLost ==
    /\ Settled /\ fin.kind = "status" /\ AllDecodable
    /\ Len(frames) >= 1
    /\ CountKind(events, eventTypeError) = 0

\* C3: on every way the receive loop can exit, the end event is emitted
\* exactly once, and once the caller has yielded to the event loop and the
\* loop has nothing left to run the end event has been delivered exactly once.
C3_EndOnce ==
    Settled => /\ CountKind(emitted, eventTypeEnd) = 1
               /\ CountKind(events, eventTypeEnd) = 1

\* The end event was emitted, the caller yielded, and it was not delivered.
C3_EndEmittedNotDelivered ==
    /\ Settled
    /\ CountKind(emitted, eventTypeEnd) = 1
    /\ CountKind(events, eventTypeEnd) = 0

\* C4: once an end or an error event has been delivered no data event is
\* delivered afterwards, and once end has been delivered no event at all.
C4_TerminalIsLast ==
    \A i, j \in 1..Len(events) :
        i < j => /\ events[i].kind # eventTypeEnd
                 /\ events[i].kind = eventTypeError => events[j].kind # eventTypeData

\* data, then error, then end were delivered.
C4_ErrorThenEnd ==
    /\ Len(events) = 3
    /\ events[1].kind = eventTypeData
    /\ events[2].kind = eventTypeError
    /\ events[3].kind = eventTypeEnd

\* C5: every listener invocation is made by the js thread while it runs a
\* task of the event loop: never by the goroutine, never while the script
\* (and so an on() registration) is running; the js thread runs one
\* invocation at a time.
C5_ListenersOnJsThread ==
    \A i \in 1..Len(calls) : calls[i].thread = "js" /\ calls[i].at = "task"

\* Two listeners were invoked for one data event, while the goroutine was
\* still receiving.
C5_ListenersCalled ==
    /\ spc = "recv"
    /\ \E i, j \in 1..Len(calls) : /\ i < j
                                    /\ calls[i].h # calls[j].h
                                    /\ calls[i].kind = eventTypeData
                                    /\ calls[j].kind = eventTypeData
                                    /\ calls[i].msg = calls[j].msg

\* ------------------------------------------------------------- the client
CallOps == {"invoke", "asyncInvoke", "stream"}

\* C6: asyncInvoke returns a pending handle without making the network call,
\* having reserved its callback; the promise of a dispatched call is settled
\* only by the js thread, in the function handed to the event loop.
C6_SettledOnLoop ==
    [][/\ \A i \in 1..Len(acalls') :
            /\ acalls'[i].promise # "pending" => acalls'[i].by = "js"
            /\ acalls'[i].pc \in {"spawned", "returned"} => acalls'[i].promise = "pending"
       /\ (ncalls' # ncalls /\ ret'.op = "asyncInvoke" /\ ret'.kind = "pending")
             => /\ netCalls' = netCalls
                /\ registered' = registered + 1
                /\ acalls'[Len(acalls')].promise = "pending"]_vars

\* A dispatched call whose network call was made and whose promise the event
\* loop settled.
C6_Settled ==
    \E i \in 1..Len(acalls) :
        acalls[i].pc = "settled" /\ acalls[i].promise = "resolved" /\ netCalls >= 1

\* C7: for a path that is not registered, invoke, asyncInvoke and stream fail
\* with the method-not-found error, whatever the request and the params are,
\* and make no network call, push no observation, reserve no callback.
C7_MethodNotFound ==
    [][(ncalls' # ncalls /\ ret'.op \in CallOps /\ ret'.method \notin DOMAIN mds)
          => /\ ret'.kind \in {"error", "rejected"}
             /\ ret'.err = "method not found in file descriptors"
             /\ netCalls' = netCalls
             /\ samples' = samples
             /\ registered' = registered
             /\ acalls' = acalls
             /\ spc' = spc]_vars

\* stream was called with an unregistered path while other methods are known.
C7_UnknownPathCalled ==
    /\ ret.op = "stream" /\ ret.method = NoSuchMethod /\ ret.req = "absent"
    /\ ret.phase = "vu" /\ DOMAIN mds # {}
    /\ ret.err = "method not found in file descriptors"

\* C8: for a registered method, invoke, asyncInvoke and stream called with a
\* null or absent request fail with "request cannot be nil", with no network
\* call and no observation.
C8_NilRequest ==
    (ret.op \in CallOps /\ ret.known /\ ret.req \in {"absent", "nullish"})
        => /\ ret.kind \in {"error", "rejected"}
           /\ ret.err = "request cannot be nil"
           /\ ret.net = 0
           /\ ret.obs = 0

\* C9: in the execution phase every load fails with "load must be called in
\* the init context" and leaves the registered methods unchanged.
C9_LoadOnlyInInit ==
    [][(ncalls' # ncalls /\ ret'.op = "load" /\ state # "nil")
          => /\ ret'.kind = "error"
             /\ ret'.err = "load must be called in the init context"
             /\ mds' = mds]_vars

\* load was called in the execution phase, after a load in the init context.
C9_LoadInExecution ==
    /\ ret.op = "load" /\ ret.phase = "vu" /\ ret.kind = "error"
    /\ DOMAIN mds # {} /\ DOMAIN mds # Methods

\* C10: connect, invoke and stream called in the init context fail with an
\* error (returned, or thrown to the script), make no network call and leave
\* the address and the HTTP client unchanged: none of them crashes.
C10_InitPhaseFails ==
    (ret.op \in {"connect", "invoke", "stream"} /\ ret.phase = "nil")
        => /\ ret.kind \in {"error", "throw"}
           /\ ret.net = 0
           /\ addr = "nil"
           /\ httpClient = "nil"

\* C11: registration is additive and idempotent: a successful load or
\* reflecting connect makes the resolvable paths those resolvable before
\* together with the methods of the set it registered, and no other step
\* changes them; so the resolvable paths are the union of the sets
\* registered so far, nothing is removed, and registering a set again
\* changes nothing.
C11_RegistrationIsUnion ==
    [][LET registers == /\ ncalls' # ncalls
                        /\ ret'.op \in {"load", "connect"}
                        /\ ret'.kind = "ok"
       IN  /\ DOMAIN mds' =
                DOMAIN mds \cup (IF registers THEN MethodsOf(ret'.files) ELSE {})
           /\ (registers /\ MethodsOf(ret'.files) \subseteq DOMAIN mds)
                 => DOMAIN mds' = DOMAIN mds]_vars

\* File b was loaded after a file that declares the other method.
C11_UnionOfTwoLoads ==
    /\ ret.op = "load" /\ ret.kind = "ok" /\ ret.files = {"b"}
    /\ DOMAIN mds = Methods

\* C12: descriptor stores are per instance: a registration on one instance
\* leaves the other instance's store as it was, so a path is resolvable on
\* an instance only if a set registered on that instance declares it.
C12_StoresAreSeparate ==
    [][/\ (ncalls' # ncalls /\ ret'.op \in {"peer.load", "peer.connect"})
            => /\ mds' = mds
               /\ DOMAIN peer' = DOMAIN peer \cup MethodsOf(ret'.files)
       /\ (ncalls' # ncalls /\ ret'.op \in {"load", "connect"})
            => /\ peer' = peer
               /\ DOMAIN mds' \subseteq DOMAIN mds \cup MethodsOf(ret'.files)]_vars

\* The two instances loaded different files and each resolves only its own.
C12_DifferentFilesLoaded ==
    /\ DOMAIN mds = FileMethods["a"]
    /\ DOMAIN peer = FileMethods["b"]

\* C13: invoke and asyncInvoke dispatch the call under the timeout option
\* when it is positive and under 2 minutes otherwise, so a call that gets no
\* response returns with a timed-out outcome: none hangs, and the goroutine
\* of a dispatched asyncInvoke can always complete.
TimedOut(r) == r.status = StatusDeadlineExceeded \/ r.err = "deadline"

C13_UnaryDeadline ==
    /\ (ret.op \in {"invoke", "asyncInvoke"} /\ (ret.net = 1 \/ ret.kind = "pending"))
          => /\ ret.deadline = IF ret.params.timeout > 0 THEN ret.params.timeout
                                                         ELSE DefaultTimeout
             /\ ret.kind # "hung"
             /\ ret.class = "deadline" => TimedOut(ret)
    /\ \A i \in 1..Len(acalls) :
          /\ acalls[i].timeout > 0
          /\ acalls[i].res.kind # "hung"
          /\ acalls[i].res.class = "deadline" => TimedOut(acalls[i].res)
          /\ (acalls[i].pc = "spawned" /\ Alive) => ENABLED AsyncGo(i)

\* An invoke without a timeout option got no response within 2 minutes.
C13_DefaultDeadlineExpired ==
    /\ ret.op = "invoke" /\ ret.params = ParamsAbsent
    /\ ret.class = "deadline" /\ ret.deadline = DefaultTimeout

\* C14: stream applies no default deadline: the call is opened under a
\* context with a deadline exactly when the timeout option is positive;
\* without one the stream never ends by expiry; with one the expiry can
\* always end the receive loop, and once the loop has exited the goroutine
\* runs to its end.
StreamExit == StreamErr \/ DeferQueueClose \/ DeferTqClose

Expire == Receive /\ fin'.kind = "deadline"

Structured(r) == r.kind = "ok" /\ r.status \in StatusCodes /\ r.err = "remote"

C15_StatusIsOutcome ==
    /\ (ret.op = "invoke" /\ ret.class = "status") => Structured(ret)
    /\ (ret.op = "invoke" /\ ret.net = 1 /\ ret.kind = "ok")
          => (ret.status = StatusOK <=> ret.class = "ok")
    /\ \A i \in 1..Len(acalls) :
          acalls[i].pc = "settled"
             => /\ acalls[i].res.class = "status"
                    => Structured(acalls[i].res) /\ acalls[i].promise = "resolved"
                /\ acalls[i].promise = "resolved"
                    => (acalls[i].res.status = StatusOK <=> acalls[i].res.class = "ok")

\* An asyncInvoke the remote rejected was resolved with the remote's status.
C15_RejectedCallResolved ==
    \E i \in 1..Len(acalls) :
        /\ acalls[i].pc = "settled" /\ acalls[i].promise = "resolved"
        /\ acalls[i].res.class = "status" /\ acalls[i].res.status = StatusNotFound

\* C16: a unary call that fails because its deadline expired or because of a
\* connection-level failure is a client error: invoke raises and asyncInvoke
\* rejects, unlike the outcome returned when the remote rejects the call.
ClientFailure(r) == r.class \in {"deadline", "transport"}

C16_FailuresAreRaised ==
    /\ (ret.op = "invoke" /\ ClientFailure(ret)) => ret.kind = "error"
    /\ \A i \in 1..Len(acalls) :
          (acalls[i].pc = "settled" /\ ClientFailure(acalls[i].res))
              => acalls[i].promise = "rejected"

\* invoke returned an outcome with status DeadlineExceeded for a call whose
\* deadline expired.
C16_DeadlineReturnedAsOutcome ==
    /\ ret.op = "invoke" /\ ret.class = "deadline"
    /\ ret.kind = "ok" /\ ret.status = StatusDeadlineExceeded

\* C17: every unary call that reaches the network records exactly one
\* latency observation whatever its outcome, and a call that fails before
\* the network records none: an invoke step adds as many observations as
\* network calls, and the goroutine of an asyncInvoke adds one with its call.
C17_OneObservationPerCall ==
    [][/\ (ncalls' # ncalls /\ ret'.op \in {"invoke", "asyncInvoke"})
            => samples'.dur = samples.dur + (netCalls' - netCalls)
       /\ (ncalls' = ncalls /\ acalls' # acalls /\ netCalls' # netCalls)
            => samples'.dur = samples.dur + 1]_vars

\* An invoke made its network call, the deadline expired, and no latency
\* observation was recorded.
C17_ExpiredCallUnobserved ==
    /\ ret.op = "invoke" /\ ret.net = 1 /\ ret.class = "deadline"
    /\ samples.dur = 0

\* C18: Unmarshal into a deferred message never fails and leaves in it exactly
\* the bytes it was given: a later re-use of the framework's buffer does not
\* change them, and a second Unmarshal replaces what the first one stored.
C18_DeferredCopy ==
    /\ codec.data = codec.given
    /\ codec.target = "deferred" => codec.err = "nil"

\* a second Unmarshal replaced the first one's bytes, then the buffer was re-used
C18_ReplacedThenBufferReused ==
    /\ codec.target = "deferred"
    /\ codec.prev # <<>>
    /\ codec.data # codec.prev
    /\ codec.buf # codec.given
    /\ Len(codec.buf) = Len(codec.given)

\* C19: every response of an asyncInvoke call and every frame of a stream is
\* decoded with the descriptor its method had when the call was issued, whatever
\* a later reflecting connect registered under the same path and whatever other
\* calls are in flight (invoke resolves and decodes in one step of the js thread).
C19_DescriptorOfTheCall ==
    /\ \A i \in 1..Len(acalls) : acalls[i].with \in {"none", acalls[i].md}
    /\ smd.with \in {"none", smd.md}

\* a response decoded after a reflecting connect registered another descriptor
\* under the call's path
C19_DecodedAfterReregistration ==
    \E i \in 1..Len(acalls) :
        /\ acalls[i].with = acalls[i].md
        /\ mds[acalls[i].method] # acalls[i].md

\* C20: a value that conforms to a descriptor, encoded as a request and decoded
\* from those bytes with the same descriptor, comes back equal to the original,
\* for every field kind, singular and repeated.
C20_RoundTrip == trip.at = "decoded" => trip.back = trip.value

\* an int64 field given as the number 1 comes back as the string "1"
C20_Int64ComesBackAsString ==
    /\ trip.at = "decoded"
    /\ trip.d = [kind |-> "int64", rep |-> FALSE]
    /\ trip.value = [has |-> TRUE, items |-> <<J("num", "1")>>]
    /\ trip.back = [has |-> TRUE, items |-> <<J("str", "1")>>]

\* C21: encoding ignores a key of the script object that names no field of the
\* input descriptor (the request is built), a field the object leaves out is
\* at its zero value (not on the wire), and the decoded value has every field
\* of the output descriptor.
C21_UnknownIgnoredMissingZero ==
    /\ trip.at # "failed"
    /\ (trip.at \in {"sent", "decoded"} /\ ~trip.value.has) => trip.wire = <<>>
    /\ trip.at = "decoded" => trip.back.has /\ (~trip.d.rep => trip.back.items # <<>>)

\* a conforming object with one key more is refused by buildRequest
C21_UnknownFieldRejected ==
    /\ trip.at = "failed"
    /\ trip.extra
    /\ trip.value.has

\* C22: for one delivered event the listeners of its kind are called in
\* registration order, each at most once, none after one that raised; a
\* listener that raises does not stop the stream: once the goroutine has
\* returned and the event loop has nothing left to run, every event that was
\* queued has been delivered.
C22_RaiseDoesNotStopStream ==
    /\ \A i, j \in 1..Len(calls) :
          (i < j /\ calls[i].kind = calls[j].kind /\ calls[i].msg = calls[j].msg)
              => /\ calls[i].h < calls[j].h
                 /\ \A l \in 1..Len(listeners[calls[i].kind]) :
                       listeners[calls[i].kind][l].id = calls[i].h
                           => ~listeners[calls[i].kind][l].raises
    /\ Settled => events = emitted

\* a data listener raised on the first message: the second message and the
\* end event were queued and never delivered
C22_LaterEventsLost ==
    /\ Settled
    /\ loopErr
    /\ Len(events) = 1
    /\ events[1].kind = eventTypeData
    /\ Len(emitted) = 3
    /\ emitted[3].kind = eventTypeEnd

\* C23: a stream delivers at most one error event, and only when the server
\* ended it with a non-OK status; when the receive loop ended on any other
\* error, the error is logged, no error listener is called, and once the event
\* loop has nothing left to run the end event has been delivered exactly once.
C23_ErrorOnlyForProtocolFailure ==
    /\ CountKind(events, eventTypeError) <= 1
    /\ CountKind(events, eventTypeError) = 1 => fin.kind = "status"
    /\ (Settled /\ fin.kind \notin {"eof", "status"})
          => /\ logs >= 1
             /\ \A i \in 1..Len(calls) : calls[i].kind # eventTypeError
             /\ CountKind(events, eventTypeEnd) = 1

\* the transport failed and an error listener was called with Unavailable
C23_TransportFailureDelivered ==
    /\ fin.kind = "transport"
    /\ \E i \in 1..Len(calls) :
          calls[i].kind = eventTypeError /\ calls[i].code = StatusUnavailable

\* C24: a call of invoke, asyncInvoke or stream in the execution phase, on a
\* connected client, for a registered method and with a request, whose metadata
\* option is no key-value
\* object or holds a value that is no string fails with the metadata error
\* and has made no network call, pushed no observation and dispatched
\* nothing; when every value is a string the dispatched request carries the
\* metadata as headers.
C24_InvalidMetadataFailsLocally ==
    (ret.op \in CallOps /\ ret.phase = "vu" /\ addr # "nil" /\ ret.known
        /\ ret.req \notin {"absent", "nullish"})
        => /\ ret.params.metadata \in {"notobject", "nonstring"}
                => /\ ret.kind \in {"error", "rejected"}
                   /\ ret.err \in {"metadata must be an object with key-value pairs",
                                   "metadata value must be string"}
                   /\ ret.net = 0 /\ ret.obs = 0 /\ ret.reg = 0
                   /\ ret.headers = "none"
           /\ (ret.params.metadata = "strings" /\ ret.net + ret.reg > 0)
                => ret.headers = "metadata"

\* the request cannot be encoded and the metadata holds a number: the error
\* reported is the encoder's
C24_EncodeErrorInsteadOfMetadata ==
    /\ ret.op \in CallOps /\ ret.phase = "vu" /\ addr # "nil" /\ ret.known
    /\ ret.req = "unencodable"
    /\ ret.params.metadata = "nonstring"
    /\ ret.err = "protojson: cannot unmarshal request"

\* C25: a reflecting connect to a server whose files link registers the
\* methods of every service the server lists, also when two of the services
\* are declared in one file: the set handed to registerMethods holds no file
\* twice.
C25_ReflectedFilesOnce ==
    (ret.op = "connect" /\ ret.net = 1 /\ ret.files # {} /\ ret.err # "protodesc.NewFiles")
        => /\ ret.kind = "ok"
           /\ MethodsOf(ret.files) \subseteq DOMAIN mds

\* the server declares two services in file b: the connect failed and
\* registered nothing
C25_SameFileTwiceRejected ==
    /\ ret.op = "connect" /\ ret.net = 1
    /\ ret.files = {"b"}
    /\ ret.kind = "error"
    /\ ret.err = "file appears multiple times"
    /\ mds = NoMethods

\* The files reachable from the given ones along the dependencies
RECURSIVE Closure(_, _)
Closure(g, S) ==
    LET T == S \cup UNION {g[f] : f \in S}
    IN  IF T = S THEN S ELSE Closure(g, T)

WalkDone == walk.stack = <<>> /\ walk.roots = <<>>

\* C26: within one load call the walk returns every file reachable from the
\* given files exactly once, each file at the head of its own list, before the
\* files found through it, and the walk ends on every dependency graph,
\* diamonds and cycles included.
C26_WalkOnceAndEnds ==
    /\ [](/\ \A i, j \in 1..Len(walk.fdset) : i # j => walk.fdset[i] # walk.fdset[j]
          /\ \A k \in 1..Len(walk.stack) :
                walk.stack[k].fds[1] = walk.stack[k].fd
          /\ \A k \in 1..Len(walk.fdset) :
                \/ \E r \in 1..Len(walk.given) : walk.given[r] = walk.fdset[k]
                \/ \E j \in 1..(k - 1) : walk.fdset[k] \in walk.deps[walk.fdset[j]]
          /\ WalkDone =>
                {walk.fdset[k] : k \in 1..Len(walk.fdset)}
                    = Closure(walk.deps, {walk.given[r] : r \in 1..Len(walk.given)}))
    /\ <>WalkDone

\* the walk of a graph in which every file imports another and two files
\* import each other, entered from two given files, has ended with all three
C26_CycleWalked ==
    /\ WalkDone
    /\ Len(walk.given) = 2
    /\ Len(walk.fdset) = 3
    /\ \A f \in Files : walk.deps[f] # {} /\ f \notin walk.deps[f]
    /\ \E f \in Files : \E g \in Files : g # f /\ g \in walk.deps[f] /\ f \in walk.deps[g]

IsPrefix(a, b) == Len(a) <= Len(b) /\ a = SubSeq(b, 1, Len(a))

\* C27: the events are delivered in the order they were queued; once the
\* queue is closed the end event is the last one it accepted; and once the
\* goroutine has returned and the event loop has nothing left to run, every
\* event that was queued before the exit has been delivered.
C27_QueuedEventsDrained ==
    /\ IsPrefix(events, emitted)
    /\ tq.closed => (emitted # <<>> /\ emitted[Len(emitted)] = EndTask)
    /\ (Settled /\ tq.closed) => Len(events) = Len(emitted)

\* the queue was closed with the error and end events in it; the error
\* listener raised and the end event stayed undelivered
C27_EndLeftInClosedQueue ==
    /\ Settled
    /\ tq.closed
    /\ fin.kind = "status"
    /\ events # <<>>
    /\ events[Len(events)].kind = eventTypeError
    /\ emitted[Len(emitted)] = EndTask

Decoded == {i \in 1..Len(frames) : frames[i]}
DataQueued == {i \in 1..Len(emitted) : emitted[i].kind = eventTypeData}

ParamsErrors ==
    {"metadata must be an object with key-value pairs", "metadata value must be string",
     "metric tags", "invalid timeout value"}

\* C29: invoke in the execution phase reports the error of the earliest step
\* that fails: the method lookup, then the nil request, then the options
\* (metadata, timeout, tags), then the encoding of the request.
C29_EarliestStepReported ==
    (ret.op = "invoke" /\ ret.phase = "vu")
        => /\ ~ret.known => ret.err = "method not found in file descriptors"
           /\ (ret.known /\ ret.req = "absent") => ret.err = "request cannot be nil"
           /\ (ret.known /\ ret.req \in {"object", "unencodable"}
                 /\ ret.params.bad # "none") => ret.err \in ParamsErrors
           /\ (ret.known /\ ret.req = "unencodable" /\ ret.params.shape # "nullish"
                 /\ ret.params.bad = "none")
                 => ret.err = "protojson: cannot unmarshal request"

\* an invalid timeout and a request that cannot be encoded: invoke reports
\* the request
C29_EncodeErrorBeforeOptions ==
    /\ ret.op = "invoke" /\ ret.phase = "vu" /\ ret.known
    /\ ret.req = "unencodable"
    /\ ret.params.bad = "timeout"
    /\ ret.kind = "error"
    /\ ret.err = "protojson: cannot unmarshal request"

\* C30: every on(kind, handler) call with a handler appends it to the list of
\* kind when kind is data, error or end, and otherwise registers nothing and
\* logs a warning without raising; a call without a handler raises and
\* registers nothing; the lists of the other kinds are never changed.
C30_OnRegistersValidKindOnly ==
    [][nOn' # nOn =>
        LET k == onRes'.kind
            h == onRes'.h
        IN  /\ \A o \in EventTypes \ {k} : listeners'[o] = listeners[o]
            /\ h = NilHandler.id => onRes'.res = "throw" /\ listeners' = listeners
            /\ h # NilHandler.id /\ k \in EventTypes =>
                    /\ onRes'.res = "ok"
                    /\ Len(listeners'[k]) = Len(listeners[k]) + 1
                    /\ SubSeq(listeners'[k], 1, Len(listeners[k])) = listeners[k]
                    /\ listeners'[k][Len(listeners'[k])].id = h
                    /\ logs' = logs
            /\ h # NilHandler.id /\ k \notin EventTypes =>
                    /\ onRes'.res = "warned"
                    /\ listeners' = listeners
                    /\ logs' = logs + 1]_vars

\* C30: a listener has called on() with a handler and a supported kind, and
\* the call has not returned: nothing is registered.
C30_OnInsideListenerBlocks ==
    /\ onRes.res = "blocked"
    /\ onRes.kind \in EventTypes
    /\ onRes.h # NilHandler.id
    /\ js = "blocked"
    /\ \A o \in EventTypes : \A i \in 1..Len(listeners[o]) : listeners[o][i].id # onRes.h

\* The listener with identity h was called with the event of task t.
DeliveredTo(t, h) ==
    \E i \in 1..Len(calls) :
        /\ calls[i].kind = t.kind
        /\ calls[i].msg = t.msg
        /\ calls[i].code = t.code
        /\ calls[i].h = h

\* C31: no event is dispatched while the script that opened the stream is
\* still running, and once the stream has ended and the event loop has
\* nothing left to run, every event the goroutine queued, whether before or
\* after the on() calls, was delivered to every listener the script
\* registered for its kind.
C31_ScriptListenersMissNoEvent ==
    /\ js = "script" => events = <<>> /\ calls = <<>>
    /\ Settled =>
          \A i \in 1..Len(emitted) :
              \A l \in 1..Len(listeners[emitted[i].kind]) :
                  DeliveredTo(emitted[i], listeners[emitted[i].kind][l].id)

\* C31: the first message was queued before the script registered its two
\* data listeners; the first listener raised and the second one, registered
\* in the same script run, was never called
C31_SecondListenerMissedData ==
    /\ Settled
    /\ Len(listeners[eventTypeData]) = 2
    /\ listeners[eventTypeData][1].raises
    /\ emitted # <<>>
    /\ emitted[1] = DataTask(1)
    /\ DeliveredTo(DataTask(1), listeners[eventTypeData][1].id)
    /\ ~DeliveredTo(DataTask(1), listeners[eventTypeData][2].id)

\* C32: an on() call made by a running listener returns: the js thread is
\* never left waiting for the listener-set lock.
C32_OnInsideListenerReturns ==
    /\ js # "blocked"
    /\ onRes.res # "blocked"

\* C32: a data listener called on() while the read lock was held for it; the
\* goroutine has since ended the stream, and the rest of the batch and the
\* end event wait for a js thread that does not come back
C32_LoopStuckOnListenerLock ==
    /\ js = "blocked"
    /\ spc = "done"
    /\ batch # <<>>
    /\ Head(batch).kind = eventTypeData
    /\ emitted[Len(emitted)] = EndTask
    /\ \A i \in 1..Len(events) : events[i] # EndTask

\* The goroutines of all dispatched calls have handed their result over and
\* the event loop has nothing left to run.
AsyncQuiet ==
    /\ js = "idle"
    /\ loopq = <<>>
    /\ \A i \in 1..Len(acalls) : acalls[i].pc # "spawned"

\* C33: every asyncInvoke call returns a handle, rejected at once with no
\* callback reserved when the call fails before dispatch and pending with one
\* callback reserved otherwise; a reserved callback is outstanding exactly
\* while its goroutine has not handed over its result; a handle stays pending
\* until the event loop runs that function, and once the goroutines have
\* returned and the loop has run dry every handle is settled.
C33_HandleSettledOnce ==
    /\ ret.op = "asyncInvoke" =>
          /\ ret.kind \in {"rejected", "pending"}
          /\ ret.kind = "rejected" => ret.reg = 0 /\ ret.net = 0
          /\ ret.kind = "pending" => ret.reg = 1
    /\ \A i \in 1..Len(acalls) :
          /\ acalls[i].pc \in {"spawned", "returned", "settled"}
          /\ acalls[i].promise = "pending" <=> acalls[i].pc # "settled"
          /\ acalls[i].pc = "returned" =>
                Cardinality({j \in 1..Len(loopq) : loopq[j] = AsyncLoopFn(i)}) = 1
          /\ acalls[i].pc # "returned" =>
                \A j \in 1..Len(loopq) : loopq[j] # AsyncLoopFn(i)
    /\ Cardinality({i \in 1..Len(acalls) : acalls[i].pc = "spawned"}) <= registered
    /\ AsyncQuiet => \A i \in 1..Len(acalls) : acalls[i].promise # "pending"

\* C33: asyncInvoke was called in the execution phase on a connected client
\* with a registered method and a null request, and raised instead of
\* returning a rejected handle
C33_NullRequestRaises ==
    /\ ret.op = "asyncInvoke"
    /\ ret.req = "nullish"
    /\ ret.known
    /\ ret.phase = "vu"
    /\ addr # "nil"
    /\ ret.kind = "throw"
    /\ acalls = <<>>

\* The callbacks reserved by asyncInvoke calls whose goroutine has not yet
\* handed over its result.
AsyncReserved == Cardinality({i \in 1..Len(acalls) : acalls[i].pc = "spawned"})

\* C34: after a stream() call that failed to open its server-streaming call,
\* no callback reserved for the stream's task queue is outstanding, no
\* goroutine receives, and no timeout context of the stream is left.
C34_FailedOpenLeavesNothing ==
    spc = "unopened" =>
        /\ ret.op = "stream" => ret.kind = "error" /\ ret.err = "CallServerStream"
        /\ frames = <<>> /\ fin = Open /\ emitted = <<>>
        /\ registered = AsyncReserved
        /\ sctx # "timeout"

\* C34: stream() with a timeout returned the error of the call it could not
\* open; the script has returned, no call is in flight, and the event loop
\* still waits for the callback the stream's task queue reserved
C34_CallbackLeftReserved ==
    /\ spc = "unopened"
    /\ ret.op = "stream"
    /\ ret.err = "CallServerStream"
    /\ ret.params.timeout > 0
    /\ js = "idle"
    /\ loopq = <<>>
    /\ acalls = <<>>
    /\ registered = 1
    /\ ~tq.closed

\* C35: a connect call that returns an error leaves the client's address,
\* its HTTP client and its registered methods as they were before the call.
C35_FailedConnectChangesNothing ==
    [][(ncalls' # ncalls /\ ret'.op = "connect" /\ ret'.kind # "ok")
          => /\ addr' = addr
             /\ httpClient' = httpClient
             /\ mds' = mds]_vars

\* C35: a client that had connected was given an address that does not parse:
\* the call failed and the address it had is gone
C35_AddressLostByFailedConnect ==
    /\ ret.op = "connect"
    /\ ret.kind = "error"
    /\ ret.err = "url.Parse"
    /\ httpClient = "set"
    /\ addr = "nil"

\* C36: a connect call made in the execution phase with a metadata option
\* whose values are all strings does not fail before the address is parsed,
\* and when it reflects the entries are sent as the headers of the reflection
\* query; a metadata option that is not an object or has a value that is not
\* a string is an error.
C36_StringMetadataAccepted ==
    (ret.op = "connect" /\ ret.phase # "nil" /\ ret.params.shape = "object"
        /\ ret.params.bad = "none") =>
        /\ ret.params.metadata = "strings" =>
              /\ ret.kind \in {"ok", "error"}
              /\ ret.kind = "error" => (ret.err = "url.Parse" \/ ret.net = 1)
              /\ ret.net = 1 => ret.headers = "metadata"
        /\ ret.params.metadata \in {"notobject", "nonstring"} =>
              ret.kind = "error" /\ ret.net = 0

\* C36: connect was called in the execution phase with a valid address and
\* a metadata option of string values, and the call panicked
C36_StringMetadataPanics ==
    /\ ret.op = "connect"
    /\ ret.phase # "nil"
    /\ ret.method \in Addresses
    /\ ret.params.metadata = "strings"
    /\ ret.kind = "panic"
    /\ ret.net = 0

\* C37: in the execution phase, on a client with no address and no HTTP
\* client, a call of invoke, asyncInvoke or stream for a registered method
\* with a request and params that are not null ends in an error value (a
\* rejected handle for asyncInvoke), reserves nothing and makes no network
\* call, and no goroutine crashes.
C37_NeverConnectedFailsCleanly ==
    /\ (ret.op \in CallOps /\ ret.phase = "vu" /\ ret.known /\ addr = "nil"
           /\ httpClient = "nil" /\ ret.req # "nullish" /\ ret.params.shape # "nullish") =>
          /\ ret.kind \in {"error", "rejected"}
          /\ ret.net = 0
          /\ ret.reg = 0
    /\ (addr = "nil" /\ httpClient = "nil") => Alive /\ netCalls = 0

\* C37: invoke was called in the execution phase for a registered method,
\* with a well-formed request and no params, on a client that never
\* connected, and hit a nil pointer dereference
C37_InvokeWithoutAddressPanics ==
    /\ ret.op = "invoke"
    /\ ret.phase = "vu"
    /\ ret.known
    /\ ret.req = "object"
    /\ ret.params = ParamsAbsent
    /\ addr = "nil"
    /\ httpClient = "nil"
    /\ ret.kind = "panic"
    /\ ret.net = 0

\* C38: every asyncInvoke call is sent to the address the client had when
\* asyncInvoke was called, which is the URL its tags carry, whatever connect
\* calls the script makes before the call's goroutine dispatches; and no
\* such connect makes the goroutine fail on the client's address.
C38_SentWhereTagged ==
    \A i \in 1..Len(acalls) :
        /\ acalls[i].sent \in {"none", acalls[i].tagged}
        /\ acalls[i].pc # "crashed"

\* C38: a call made while the client was connected to one server was sent,
\* after a connect to another, to the other server, with the first server's
\* URL in its tags
C38_CallRedirectedByConnect ==
    \E i \in 1..Len(acalls) :
        /\ acalls[i].tagged = "http://a"
        /\ acalls[i].sent = OtherAddress
        /\ acalls[i].pc = "settled"
        /\ addr = OtherAddress

\* C39: a load that returns an error, whichever of its steps failed, leaves
\* the registered methods exactly as they were, and a load that succeeds
\* registers every method of its files.
C39_LoadAllOrNothing ==
    [][(ncalls' # ncalls /\ ret'.op = "load") =>
          IF ret'.kind = "ok"
          THEN \A p \in MethodsOf(ret'.files) :
                  p \in DOMAIN mds' /\ mds'[p] = DescOf(ret'.files, p)
          ELSE mds' = mds]_vars

\* C39: after a successful load of one file, a load of another file parsed
\* and failed when its descriptor set was built: the first file's method
\* is registered and the second file's is not
C39_FailedLoadAfterLoad ==
    /\ ret.op = "load"
    /\ ret.kind = "error"
    /\ ret.err = "protodesc.NewFiles"
    /\ ret.files = {"b"}
    /\ DOMAIN mds = MethodsOf({"a"})

====
